---- MODULE Spec2Model ----
(***************************************************************************)
(* A model of the protocol session engine of uc-intg-anthemav.             *)
(*                                                                         *)
(* The repository carries three implementations of the engine:             *)
(*   "head"   - device.py, the HEAD side of its merge conflicts            *)
(*   "main"   - device.py, the main side of its merge conflicts            *)
(*   "client" - client.py (AnthemClient)                                   *)
(* The variable impl selects the one a behaviour runs.  Text is modelled   *)
(* as a sequence of one-character strings, a socket read as a sequence of  *)
(* bytes (ASCII characters, or the non-ASCII byte NonAscii).               *)
(***************************************************************************)
EXTENDS Integers, Sequences, FiniteSets, TLC

VARIABLES
    impl,                     \* which implementation runs
    config,                   \* the device configuration (zones, discovered_inputs)
    repertoire,               \* the fragments the receiver may put on the wire
    wire,                     \* bytes written by the receiver, not yet read
    peer_open,                \* the receiver has not closed its end
    nsent,                    \* number of fragments the receiver has written
    received,                 \* every byte the read loop has read so far
    buffer,                   \* the read loop's local buffer
    listening,                \* the read loop is running, suspended in its read
    connected,                \* _connected / is_connected
    reader,                   \* _reader is set
    writer,                   \* _writer is set
    listen_task,              \* _listen_task: "none", "running", "done"
    zone_states,              \* zone number -> dict of cached attributes
    input_count,              \* _input_count
    input_names,              \* _input_names: input number -> name
    input_discovery_complete, \* _input_discovery_complete
    state_cache,              \* top-level keys of _state_cache (HEAD: _state)
    events,                   \* every DeviceEvents.UPDATE emitted, in order
    tasks,                    \* tasks started with asyncio.create_task, in order
    processed,                \* every line handed to _process_response, in order
    written,                  \* the bytes of every write to the socket, in order
    lock,                     \* AnthemClient._lock: "free" or the call holding it
    cpc,                      \* where the caller of connect() stands
    attempt,                  \* connect(): the attempt of its retry loop
    dpc,                      \* where the caller of disconnect() stands
    dfrom,                    \* who runs disconnect(): "caller" or "connect"
    calls,                    \* the public calls that have returned, in order
    raised,                   \* an exception escaped a public call
    results,                  \* the command methods that have returned, in order
    convert,                  \* a volume under conversion: dB, percentage, dB again
    senders,                  \* tasks in the middle of their writes: what each has left
    setup                     \* a setup attempt: its step, its test engine, the stored devices

vars == <<impl, config, repertoire, wire, peer_open, nsent, received, buffer, listening,
          connected, reader, writer, listen_task, zone_states, input_count,
          input_names, input_discovery_complete, state_cache, events, tasks,
          processed, written, lock, cpc, attempt, dpc, dfrom, calls, raised,
          results, convert, senders, setup>>

\* the variables of the read loop's bookkeeping and of the state store
streamVars == <<wire, peer_open, nsent, received, buffer>>
storeVars == <<zone_states, input_count, input_names, input_discovery_complete,
               state_cache, events, tasks, processed>>
callVars == <<written, lock, cpc, attempt, dpc, dfrom, calls, raised>>
fixedVars == <<impl, config, repertoire>>
cmdVars == <<results, convert, senders, setup>>
engineVars == <<listening, connected, reader, writer, listen_task>>

Impls == {"head", "main", "client"}

(***************************************************************************)
(* Bounds of the model.                                                    *)
(***************************************************************************)
MaxSent == 3

\* public calls recorded in a behaviour of the connection specification
MaxCalls == 3

\* command methods called in a behaviour of the command specification
MaxCommands == 1

(***************************************************************************)
(* Text helpers: Python's str operations on sequences of characters.       *)
(***************************************************************************)
Digits == {"0", "1", "2", "3", "4", "5", "6", "7", "8", "9"}

Whitespace == {" ", "\t", "\n", "\r", "\f"}

NonAscii == "<FF>"

\* s.startswith(p)
StartsWith(s, p) == Len(s) >= Len(p) /\ SubSeq(s, 1, Len(p)) = p

\* the index of the first occurrence of p in s at or after position from; 0 if none
FindFrom(s, p, from) ==
    LET hits == {i \in from..(Len(s) - Len(p) + 1) : SubSeq(s, i, i + Len(p) - 1) = p}
    IN IF hits = {} THEN 0 ELSE CHOOSE i \in hits : \A j \in hits : i <= j

\* s.find(p) + 1
Find(s, p) == FindFrom(s, p, 1)

\* p in s
Contains(s, p) == Find(s, p) # 0

\* s.lstrip()
LStrip(s) ==
    LET keep == {i \in 1..Len(s) : s[i] \notin Whitespace}
    IN IF keep = {} THEN <<>>
       ELSE SubSeq(s, CHOOSE i \in keep : \A j \in keep : i <= j, Len(s))

\* s.strip()
Strip(s) ==
    LET keep == {i \in 1..Len(s) : s[i] \notin Whitespace}
    IN IF keep = {} THEN <<>>
       ELSE SubSeq(s, CHOOSE i \in keep : \A j \in keep : i <= j,
                      CHOOSE i \in keep : \A j \in keep : i >= j)

\* the length of the longest run of digits of s that starts at position i
DigitRun(s, i) ==
    LET stops == {j \in i..Len(s) : s[j] \notin Digits}
    IN IF i > Len(s) THEN 0
       ELSE IF stops = {} THEN Len(s) - i + 1
       ELSE (CHOOSE j \in stops : \A k \in stops : j <= k) - i

DigitVal(c) ==
    CASE c = "0" -> 0 [] c = "1" -> 1 [] c = "2" -> 2 [] c = "3" -> 3
      [] c = "4" -> 4 [] c = "5" -> 5 [] c = "6" -> 6 [] c = "7" -> 7
      [] c = "8" -> 8 [] c = "9" -> 9

\* int(s) for a non-empty string of digits
RECURSIVE ToInt(_)
ToInt(s) ==
    IF s = <<>> THEN 0
    ELSE 10 * ToInt(SubSeq(s, 1, Len(s) - 1)) + DigitVal(s[Len(s)])

\* d[k] = v on a dict
Put(d, k, v) == [x \in (DOMAIN d) \cup {k} |-> IF x = k THEN v ELSE d[x]]

EmptyDict == [x \in {} |-> 0]

\* data.decode("ascii", errors="ignore")
Decode(data) == SelectSeq(data, LAMBDA b : b # NonAscii)


\* str(n) for n >= 0
RECURSIVE IntToStr(_)
IntToStr(n) ==
    LET d == <<"0", "1", "2", "3", "4", "5", "6", "7", "8", "9">>
    IN IF n < 10 THEN <<d[n + 1]>> ELSE IntToStr(n \div 10) \o <<d[(n % 10) + 1]>>

(***************************************************************************)
(* Regular expressions of the response handlers.                           *)
(***************************************************************************)
NoMatch == [found |-> FALSE, value |-> 0]

\* re.match(prefix + r"(\d+)", response): the number after the prefix
MatchNumber(response, prefix) ==
    LET n == DigitRun(response, Len(prefix) + 1)
    IN IF StartsWith(response, prefix) /\ n >= 1
       THEN [found |-> TRUE,
             value |-> ToInt(SubSeq(response, Len(prefix) + 1, Len(prefix) + n))]
       ELSE NoMatch

\* re.search(tag + r"(\d+)", response): the leftmost tag followed by digits
SearchNumber(response, tag) ==
    LET hits == {i \in 1..(Len(response) - Len(tag) + 1) :
                    /\ SubSeq(response, i, i + Len(tag) - 1) = tag
                    /\ DigitRun(response, i + Len(tag)) >= 1}
        i == CHOOSE h \in hits : \A k \in hits : h <= k
        from == i + Len(tag)
    IN IF hits = {} THEN NoMatch
       ELSE [found |-> TRUE,
             value |-> ToInt(SubSeq(response, from,
                                    from + DigitRun(response, from) - 1))]

\* re.search(tag + r"(-?\d+)", response), then int(group 1).
\* The main side of device.py searches tag + r"(-?\d+(?:\.\d+)?)" and takes
\* int(float(group 1)): the fraction is matched and truncated away, so the value
\* is the same signed integer part.
SearchSigned(response, tag) ==
    LET SignedAt(p) == /\ p <= Len(response)
                       /\ response[p] = "-"
                       /\ DigitRun(response, p + 1) >= 1
        hits == {i \in 1..(Len(response) - Len(tag) + 1) :
                    /\ SubSeq(response, i, i + Len(tag) - 1) = tag
                    /\ \/ SignedAt(i + Len(tag))
                       \/ DigitRun(response, i + Len(tag)) >= 1}
        i == CHOOSE h \in hits : \A k \in hits : h <= k
        p == i + Len(tag)
    IN IF hits = {} THEN NoMatch
       ELSE IF SignedAt(p)
            THEN [found |-> TRUE,
                  value |-> 0 - ToInt(SubSeq(response, p + 1,
                                             p + DigitRun(response, p + 1)))]
            ELSE [found |-> TRUE,
                  value |-> ToInt(SubSeq(response, p,
                                         p + DigitRun(response, p) - 1))]

\* the length of the longest run of characters other than "\n" from position i:
\* what the pattern .+ consumes
DotRun(s, i) ==
    LET stops == {j \in i..Len(s) : s[j] = "\n"}
    IN IF i > Len(s) THEN 0
       ELSE IF stops = {} THEN Len(s) - i + 1
       ELSE (CHOOSE j \in stops : \A k \in stops : j <= k) - i

\* re.match(r"ISN(\d{2})(.+)", response): two digits, then a non-empty name;
\* group(2).strip() is the name
MatchInputName(response) ==
    IF /\ StartsWith(response, <<"I", "S", "N">>)
       /\ Len(response) >= 6
       /\ response[4] \in Digits
       /\ response[5] \in Digits
       /\ DotRun(response, 6) >= 1
    THEN [found |-> TRUE,
          number |-> ToInt(SubSeq(response, 4, 5)),
          name |-> Strip(SubSeq(response, 6, 5 + DotRun(response, 6)))]
    ELSE [found |-> FALSE, number |-> 0, name |-> <<>>]

(***************************************************************************)
(* The capability table's read side.                                       *)
(***************************************************************************)
DefaultInputList ==
    << <<"H", "D", "M", "I", " ", "1">>,
       <<"H", "D", "M", "I", " ", "2">>,
       <<"H", "D", "M", "I", " ", "3">>,
       <<"H", "D", "M", "I", " ", "4">>,
       <<"H", "D", "M", "I", " ", "5">>,
       <<"H", "D", "M", "I", " ", "6">>,
       <<"H", "D", "M", "I", " ", "7">>,
       <<"H", "D", "M", "I", " ", "8">>,
       <<"A", "n", "a", "l", "o", "g", " ", "1">>,
       <<"A", "n", "a", "l", "o", "g", " ", "2">>,
       <<"D", "i", "g", "i", "t", "a", "l", " ", "1">>,
       <<"D", "i", "g", "i", "t", "a", "l", " ", "2">>,
       <<"U", "S", "B">>,
       <<"N", "e", "t", "w", "o", "r", "k">>,
       <<"A", "R", "C">> >>

\* f"Input {i}"
InputLabel(i) == <<"I", "n", "p", "u", "t", " ">> \o IntToStr(i)

\* [names.get(i, f"Input {i}") for i in range(1, count + 1)]
NamesInOrder(names, count) ==
    [i \in 1..count |-> IF i \in DOMAIN names THEN names[i] ELSE InputLabel(i)]

\* AnthemDevice.get_input_list, HEAD side
GetInputListHead(cfg, names, count) ==
    IF cfg.discovered_inputs # <<>> THEN cfg.discovered_inputs
    ELSE IF DOMAIN names # {} /\ count > 0 THEN NamesInOrder(names, count)
    ELSE DefaultInputList

\* AnthemDevice.get_input_list, main side: the lines both sides share return
\* the configured list, then the default list under the shared condition
GetInputListMain(cfg, names, count) ==
    IF cfg.discovered_inputs # <<>> THEN cfg.discovered_inputs
    ELSE IF DOMAIN names # {} /\ count > 0 THEN DefaultInputList
    ELSE NamesInOrder(names, count)

\* AnthemClient.get_input_list
GetInputListClient(names, count) ==
    IF DOMAIN names = {} THEN DefaultInputList ELSE NamesInOrder(names, count)

get_input_list(im, cfg, names, count) ==
    CASE im = "head" -> GetInputListHead(cfg, names, count)
      [] im = "main" -> GetInputListMain(cfg, names, count)
      [] im = "client" -> GetInputListClient(names, count)


(***************************************************************************)
(* The state store.  The engine's mutable fields travel through the        *)
(* handlers as one record e: zone_states, input_count, input_names,        *)
(* input_discovery_complete, state_cache, events, tasks.                   *)
(***************************************************************************)
POW == <<"P", "O", "W">>
VOL == <<"V", "O", "L">>
MUT == <<"M", "U", "T">>
INP == <<"I", "N", "P">>
SIP == <<"S", "I", "P">>
AIC == <<"A", "I", "C">>
ON == <<"O", "N">>
OFF == <<"O", "F", "F">>

\* int(x / d) for d > 0: Python's int() truncates toward zero
TruncDiv(x, d) == IF x >= 0 THEN x \div d ELSE 0 - ((0 - x) \div d)

\* int(((volume_db + 90) / 90) * 100), device.py HEAD side
VolumePct(volume_db) == TruncDiv((volume_db + 90) * 100, 90)

\* state.get("power", False) and "ON" or "OFF"
PowerText(state) ==
    IF "power" \in DOMAIN state /\ state["power"] THEN ON ELSE OFF

\* the zone store with the record of zone z created when missing
WithZone(zs, z) == IF z \in DOMAIN zs THEN zs ELSE Put(zs, z, EmptyDict)

\* the key under which an implementation caches a zone's volume
VolumeKey(im) == IF im = "head" THEN "volume_db" ELSE "volume"

\* re.search(tag + r'"([^"]*)"', response): the leftmost quoted text after tag
SearchQuoted(response, tag) ==
    LET q == <<"\"">>
        hits == {i \in 1..(Len(response) - Len(tag)) :
                    /\ SubSeq(response, i, i + Len(tag)) = tag \o q
                    /\ FindFrom(response, q, i + Len(tag) + 1) # 0}
        i == CHOOSE h \in hits : \A k \in hits : h <= k
        open == i + Len(tag)
    IN IF hits = {} THEN [found |-> FALSE, text |-> <<>>]
       ELSE [found |-> TRUE,
             text |-> SubSeq(response, open + 1,
                             FindFrom(response, q, open + 1) - 1)]

Emit(e, entity, attrs) ==
    [e EXCEPT !.events = Append(@, [entity |-> entity, attrs |-> attrs])]

\* one event per zone of zs, with the same attributes
EmitAll(e, kind, zs, attrs) ==
    [e EXCEPT !.events =
        @ \o [i \in 1..Len(zs) |->
                 [entity |-> <<kind, zs[i].zone_number>>, attrs |-> attrs]]]

CreateTask(e, task) == [e EXCEPT !.tasks = Append(@, task)]

\* elif response.startswith("ICN"): shared by the three implementations
UpdateInputCount(e, response) ==
    LET m == MatchNumber(response, <<"I", "C", "N">>)
    IN IF m.found
       THEN CreateTask([e EXCEPT !.input_count = m.value],
                       [kind |-> "discover_input_names"])
       ELSE e

IsInputNameLine(response) ==
    StartsWith(response, <<"I", "S", "N">>) /\ Len(response) > 5

(***************************************************************************)
(* AnthemDevice._update_state_from_response, HEAD side.                    *)
(***************************************************************************)
UpdateZoneHead(e, response) ==
    LET zm == MatchNumber(response, <<"Z">>)
        z == zm.value
        zs == WithZone(e.zone_states, z)
        state == zs[z]
        entity == <<"head", z>>
        Store(st) == [e EXCEPT !.zone_states = Put(zs, z, st)]
    IN IF ~zm.found THEN e
       ELSE IF Contains(response, POW) THEN
           LET power == Contains(response, <<"1">>)
               new_state == IF power THEN ON ELSE OFF
               e1 == [Store(Put(state, "power", power)) EXCEPT
                         !.state_cache = Put(@, "_state",
                                             [kind |-> "str", text |-> new_state])]
           IN Emit(e1, entity, [state |-> new_state])
       ELSE IF Contains(response, VOL) THEN
           LET vm == SearchSigned(response, VOL)
               st == Put(state, "volume_db", vm.value)
           IN IF vm.found
              THEN Emit(Store(st), entity,
                        [volume |-> VolumePct(vm.value), state |-> PowerText(st)])
              ELSE Store(state)
       ELSE IF Contains(response, MUT) THEN
           LET muted == Contains(response, <<"1">>)
               st == Put(state, "muted", muted)
           IN Emit(Store(st), entity, [muted |-> muted, state |-> PowerText(st)])
       ELSE IF Contains(response, INP) THEN
           LET im == SearchNumber(response, INP)
               input_name == IF im.value \in DOMAIN e.input_names
                             THEN e.input_names[im.value]
                             ELSE InputLabel(im.value)
               st == Put(Put(state, "input", im.value), "input_name", input_name)
           IN IF im.found
              THEN Emit(Store(st), entity,
                        [source |-> input_name, state |-> PowerText(st)])
              ELSE Store(state)
       ELSE Store(state)

UpdateHead(e, cfg, response) ==
    IF StartsWith(response, <<"I", "D", "M">>) THEN
        [e EXCEPT !.state_cache =
            Put(@, "_state",
                [kind |-> "model",
                 text |-> Strip(SubSeq(response, 4, Len(response)))])]
    ELSE IF StartsWith(response, <<"I", "C", "N">>) THEN UpdateInputCount(e, response)
    ELSE IF IsInputNameLine(response) THEN
        LET m == MatchInputName(response)
            e1 == [e EXCEPT !.input_names = Put(@, m.number, m.name)]
            enabled == SelectSeq(cfg.zones, LAMBDA zc : zc.enabled)
        IN IF ~m.found THEN e
           ELSE IF Cardinality(DOMAIN e1.input_names) = e1.input_count
           THEN EmitAll(e1, "head", enabled,
                        [source_list |-> GetInputListHead(cfg, e1.input_names,
                                                          e1.input_count)])
           ELSE e1
    ELSE IF StartsWith(response, <<"Z">>) THEN UpdateZoneHead(e, response)
    ELSE e


(***************************************************************************)
(* AnthemDevice._update_state_from_response, main side.  Its zone records  *)
(* live in _state_cache["zone_<n>"]; the model keeps them in zone_states.  *)
(* _state_cache and _input_count start empty and 0, as AnthemClient's do.  *)
(***************************************************************************)
\* zone_state.get(key) != value
Differs(state, key, value) == key \notin DOMAIN state \/ state[key] # value

\* the IDM / IDN / IDR / IDS branches of the main side and of the client
UpdateInfo(e, response) ==
    LET rest == Strip(SubSeq(response, 4, Len(response)))
        key == CASE StartsWith(response, <<"I", "D", "M">>) -> "model"
                 [] StartsWith(response, <<"I", "D", "N">>) -> "device_name"
                 [] StartsWith(response, <<"I", "D", "R">>) -> "region"
                 [] StartsWith(response, <<"I", "D", "S">>) -> "software_version"
    IN [e EXCEPT !.state_cache = Put(@, key, rest)]

IsInfoLine(response) ==
    \E t \in {"M", "N", "R", "S"} : StartsWith(response, <<"I", "D", t>>)

UpdateZoneMain(e, response) ==
    LET zm == MatchNumber(response, <<"Z">>)
        z == zm.value
        zs == WithZone(e.zone_states, z)
        zone_state == zs[z]
        Store(st) == [e EXCEPT !.zone_states = Put(zs, z, st)]
        \* if state_changed: self.events.emit(...)
        Changed(st) == Emit(Store(st), <<"number", z>>, [zone |-> z, state |-> st])
    IN IF ~zm.found THEN e
       ELSE IF Contains(response, POW) THEN
           LET power == Contains(response, <<"1">>)
           IN IF Differs(zone_state, "power", power)
              THEN Changed(Put(zone_state, "power", power))
              ELSE Store(zone_state)
       ELSE IF Contains(response, VOL) THEN
           LET vm == SearchSigned(response, VOL)
           IN IF vm.found /\ Differs(zone_state, "volume", vm.value)
              THEN Changed(Put(zone_state, "volume", vm.value))
              ELSE Store(zone_state)
       ELSE IF Contains(response, MUT) THEN
           LET muted == Contains(response, <<"1">>)
           IN IF Differs(zone_state, "muted", muted)
              THEN Changed(Put(zone_state, "muted", muted))
              ELSE Store(zone_state)
       ELSE IF Contains(response, INP) THEN
           LET im == SearchNumber(response, INP)
               st1 == Put(zone_state, "input", im.value)
               st2 == IF im.value \in DOMAIN e.input_names
                      THEN Put(st1, "input_name", e.input_names[im.value])
                      ELSE st1
           IN IF im.found /\ Differs(zone_state, "input", im.value)
              THEN Changed(st2)
              ELSE Store(zone_state)
       ELSE Store(zone_state)

UpdateMain(e, cfg, response) ==
    IF IsInfoLine(response) THEN UpdateInfo(e, response)
    ELSE IF StartsWith(response, <<"I", "C", "N">>) THEN UpdateInputCount(e, response)
    ELSE IF IsInputNameLine(response) THEN
        LET m == MatchInputName(response)
            e1 == [e EXCEPT !.input_names = Put(@, m.number, m.name)]
        IN IF ~m.found THEN e
           ELSE IF Cardinality(DOMAIN e1.input_names) >= e1.input_count
           THEN EmitAll([e1 EXCEPT !.input_discovery_complete = TRUE],
                        "config", cfg.zones, [inputs_discovered |-> TRUE])
           ELSE e1
    ELSE IF StartsWith(response, SIP) THEN
        IF Strip(SubSeq(response, 4, Len(response))) = <<"0">>
        THEN CreateTask(e, [kind |-> "send_SIP1"])
        ELSE e
    ELSE IF StartsWith(response, <<"Z">>) THEN UpdateZoneMain(e, response)
    ELSE e

(***************************************************************************)
(* AnthemClient._update_state_from_response.                               *)
(***************************************************************************)
UpdateZoneClient(e, response) ==
    LET zm == MatchNumber(response, <<"Z">>)
        z == zm.value
        zs == WithZone(e.zone_states, z)
        zone_state == zs[z]
        Store(st) == [e EXCEPT !.zone_states = Put(zs, z, st)]
    IN IF ~zm.found THEN e
       ELSE IF Contains(response, POW) THEN
           Store(Put(zone_state, "power", Contains(response, <<"1">>)))
       ELSE IF Contains(response, VOL) THEN
           LET vm == SearchSigned(response, VOL)
           IN IF vm.found THEN Store(Put(zone_state, "volume", vm.value))
              ELSE Store(zone_state)
       ELSE IF Contains(response, MUT) THEN
           Store(Put(zone_state, "muted", Contains(response, <<"1">>)))
       ELSE IF Contains(response, INP) THEN
           LET im == SearchNumber(response, INP)
               st1 == Put(zone_state, "input", im.value)
           IN IF ~im.found THEN Store(zone_state)
              ELSE IF im.value \in DOMAIN e.input_names
              THEN Store(Put(st1, "input_name", e.input_names[im.value]))
              ELSE Store(st1)
       ELSE IF Contains(response, SIP) THEN
           LET qm == SearchQuoted(response, SIP)
           IN IF qm.found THEN Store(Put(zone_state, "input_name", qm.text))
              ELSE Store(zone_state)
       ELSE IF Contains(response, AIC) THEN
           LET qm == SearchQuoted(response, AIC)
           IN IF qm.found THEN Store(Put(zone_state, "audio_format", qm.text))
              ELSE Store(zone_state)
       ELSE Store(zone_state)

UpdateClient(e, response) ==
    IF IsInfoLine(response) THEN UpdateInfo(e, response)
    ELSE IF StartsWith(response, <<"I", "C", "N">>) THEN UpdateInputCount(e, response)
    ELSE IF IsInputNameLine(response) THEN
        LET m == MatchInputName(response)
            e1 == [e EXCEPT !.input_names = Put(@, m.number, m.name)]
        IN IF ~m.found THEN e
           ELSE IF Cardinality(DOMAIN e1.input_names) >= e1.input_count
           THEN [e1 EXCEPT !.input_discovery_complete = TRUE]
           ELSE e1
    ELSE IF StartsWith(response, <<"Z">>) THEN UpdateZoneClient(e, response)
    ELSE e

\* _update_state_from_response looking for the zone prefix anywhere in the
\* line (re.search for re.match) rather than at its start
UpdateUnanchored(im, e, cfg, response) ==
    LET k == Find(response, <<"Z">>)
        from == IF k > 1 THEN SubSeq(response, k, Len(response)) ELSE response
    IN CASE im = "head" -> UpdateHead(e, cfg, from)
         [] im = "main" -> UpdateMain(e, cfg, from)
         [] im = "client" -> UpdateClient(e, from)

_update_state_from_response(im, e, cfg, response) ==
    CASE im = "head" -> UpdateHead(e, cfg, response)
      [] im = "main" -> UpdateMain(e, cfg, response)
      [] im = "client" -> UpdateClient(e, response)

IsErrorLine(response) ==
    StartsWith(response, <<"!", "I">>) \/ StartsWith(response, <<"!", "E">>)

\* _process_response: the device drops !I and !E lines, the client hands every
\* line to _update_state_from_response
_process_response(im, e, cfg, response) ==
    IF im \in {"head", "main"} /\ IsErrorLine(response) THEN e
    ELSE _update_state_from_response(im, e, cfg, response)


(***************************************************************************)
(* The read loop: AnthemDevice.maintain_connection and AnthemClient._listen.*)
(***************************************************************************)
ReadSize == 1024

\* SplitIndex with the end of the buffer taken for a terminator: the rest of a
\* read is processed without waiting for its terminator
SplitIndexEager(im, buf) ==
    LET i == IF im = "client"
             THEN IF Contains(buf, <<"\r">>) THEN Find(buf, <<"\r">>)
                  ELSE Find(buf, <<"\n">>)
             ELSE Find(buf, <<";">>)
    IN IF i = 0 THEN Len(buf) ELSE i

\* the position in the buffer of the terminator the next split cuts at; 0 if none.
\* The device splits at ";".  The client splits at the first "\r" when the buffer
\* holds one, and at the first "\n" only when it holds no "\r".
SplitIndex(im, buf) ==
    IF im = "client"
    THEN IF Contains(buf, <<"\r">>) THEN Find(buf, <<"\r">>) ELSE Find(buf, <<"\n">>)
    ELSE Find(buf, <<";">>)

Engine ==
    [zone_states |-> zone_states, input_count |-> input_count,
     input_names |-> input_names,
     input_discovery_complete |-> input_discovery_complete,
     state_cache |-> state_cache, events |-> events, tasks |-> tasks]

\* what a line's handling is measured against
StoreOf(e) ==
    [zone_states |-> e.zone_states, input_count |-> e.input_count,
     input_names |-> e.input_names,
     input_discovery_complete |-> e.input_discovery_complete,
     state_cache |-> e.state_cache]

\* DrainBuffer with the lines of one read handled last in, first out
RECURSIVE DrainBufferLifo(_, _, _, _, _, _, _, _)
DrainBufferLifo(im, buf, base, e, cfg, log, k, c) ==
    LET i == SplitIndex(im, buf)
        line == Strip(SubSeq(buf, 1, i - 1))
        rest == SubSeq(buf, i + 1, Len(buf))
    IN IF i = 0 THEN [buffer |-> buf, e |-> e, log |-> log]
       ELSE IF line = <<>>
       THEN DrainBufferLifo(im, rest, base + i, e, cfg, log, k, 0)
       ELSE LET later == DrainBufferLifo(im, rest, base + i, e, cfg, log, k, 0)
                e1 == _process_response(im, later.e, cfg, line)
            IN [buffer |-> later.buffer, e |-> e1,
                log |-> Append(later.log,
                               [line |-> line, term |-> base + i,
                                pre |-> StoreOf(later.e), post |-> StoreOf(e1),
                                emitted |-> Len(e1.events) - Len(later.e.events),
                                started |-> Len(e1.tasks) - Len(later.e.tasks),
                                nth |-> k + 1, carried |-> c > 0])]

\* the inner loop: while a terminator is in the buffer, split the line off,
\* strip it and, when it is not empty, await _process_response(line).
\* base is the number of decoded characters that left the buffer before buf, k
\* the number of lines this read has processed so far and c the number of
\* characters at the front of buf that earlier reads left there; log gets one
\* entry per processed line.
RECURSIVE DrainBuffer(_, _, _, _, _, _, _, _)
DrainBuffer(im, buf, base, e, cfg, log, k, c) ==
    LET i == SplitIndex(im, buf)
        line == Strip(SubSeq(buf, 1, i - 1))
        rest == SubSeq(buf, i + 1, Len(buf))
    IN IF i = 0 THEN [buffer |-> buf, e |-> e, log |-> log]
       ELSE IF line = <<>> THEN DrainBuffer(im, rest, base + i, e, cfg, log, k, 0)
       ELSE \* bind the handler's result once
            LET after == _process_response(im, e, cfg, line)
                entry(e1) == [line |-> line, term |-> base + i,
                              pre |-> StoreOf(e), post |-> StoreOf(e1),
                              emitted |-> Len(e1.events) - Len(e.events),
                              started |-> Len(e1.tasks) - Len(e.tasks),
                              nth |-> k + 1, carried |-> c > 0]
            IN CHOOSE r \in {DrainBuffer(im, rest, base + i, e1, cfg,
                                         Append(log, entry(e1)), k + 1, 0) :
                                e1 \in {after}} : TRUE

\* the condition of the while loop, evaluated when an iteration ends:
\* at_eof says the stream is at its end with nothing left to read
LoopCondition(im, conn, rd, at_eof) ==
    CASE im = "head" -> rd /\ ~at_eof
      [] im = "main" -> conn /\ rd
      [] im = "client" -> conn /\ rd

\* _listen_task once the loop has gone on or ended
TaskAfter(im, task, goes_on) ==
    IF im = "client" /\ ~goes_on THEN "done" ELSE task

\* the receiver writes a fragment
DeviceSend(f) ==
    /\ peer_open
    /\ writer
    /\ nsent < MaxSent
    /\ f \in repertoire
    /\ wire' = wire \o f
    /\ nsent' = nsent + 1
    /\ UNCHANGED <<peer_open, received, buffer, listening, connected,
                   reader, writer, listen_task, fixedVars, storeVars, callVars>>
    /\ UNCHANGED cmdVars

\* one iteration of the loop whose read returns n bytes; listening says the
\* loop is suspended in its read
Read(n) ==
    /\ listening
    /\ n \in 1..Len(wire)
    /\ n <= ReadSize
    /\ \E r \in {DrainBuffer(impl, buffer \o Decode(SubSeq(wire, 1, n)),
                             Len(Decode(received)) - Len(buffer),
                             Engine, config, processed, 0, Len(buffer))} :
       LET goes_on == LoopCondition(impl, connected, reader,
                                    Len(wire) = n /\ ~peer_open)
       IN /\ wire' = SubSeq(wire, n + 1, Len(wire))
          /\ received' = received \o SubSeq(wire, 1, n)
          /\ buffer' = r.buffer
          /\ processed' = r.log
          /\ zone_states' = r.e.zone_states
          /\ input_count' = r.e.input_count
          /\ input_names' = r.e.input_names
          /\ input_discovery_complete' = r.e.input_discovery_complete
          /\ state_cache' = r.e.state_cache
          /\ events' = r.e.events
          /\ tasks' = r.e.tasks
          /\ listening' = goes_on
          /\ listen_task' = TaskAfter(impl, listen_task, goes_on)
    /\ UNCHANGED <<peer_open, nsent, connected, reader, writer,
                   fixedVars, callVars>>
    /\ UNCHANGED cmdVars

\* a read timeout handled as an error: the loop ends and the partial line is lost
ReadTimeoutBreaks ==
    /\ listening
    /\ listening' = FALSE
    /\ listen_task' = TaskAfter(impl, listen_task, FALSE)
    /\ buffer' = <<>>
    /\ UNCHANGED <<connected, reader, writer, wire, peer_open, nsent, received,
                   fixedVars, storeVars, callVars>>
    /\ UNCHANGED cmdVars

\* the read times out after 120 s: continue, back to the while condition
ReadTimeout ==
    /\ listening
    /\ LET goes_on == LoopCondition(impl, connected, reader, FALSE)
       IN /\ listening' = goes_on
          /\ listen_task' = TaskAfter(impl, listen_task, goes_on)
    /\ UNCHANGED <<connected, reader, writer, streamVars, fixedVars, storeVars,
                   callVars>>
    /\ UNCHANGED cmdVars

\* the receiver closes its end of the connection
PeerClose ==
    /\ peer_open
    /\ writer
    /\ peer_open' = FALSE
    /\ UNCHANGED <<wire, nsent, received, buffer, listening, connected,
                   reader, writer, listen_task, fixedVars, storeVars, callVars>>
    /\ UNCHANGED cmdVars

\* the read returns no bytes: the loop breaks; the client also clears _connected
ReadEmpty ==
    /\ listening
    /\ wire = <<>>
    /\ ~peer_open
    /\ listening' = FALSE
    /\ connected' = IF impl = "client" THEN FALSE ELSE connected
    /\ listen_task' = TaskAfter(impl, listen_task, FALSE)
    /\ UNCHANGED <<reader, writer, streamVars, fixedVars, storeVars,
                   callVars>>
    /\ UNCHANGED cmdVars


(***************************************************************************)
(* Sending.  _send_command(command) returns whether the command was        *)
(* written; ok says whether write() and drain() went through.              *)
(***************************************************************************)
\* whether _send_command gets as far as writing
CanSend(im, conn, wr) == IF im = "client" THEN conn /\ wr ELSE wr

\* f"{command}\r".encode('ascii'): the bytes _send_command writes for a command
CommandBytes(command) == command \o <<"\r">>

\* the bytes written for a sequence of commands that all go through
Sent(cmds) == [i \in 1..Len(cmds) |-> CommandBytes(cmds[i])]

\* the result of a sequence of _send_command calls whose results the caller
\* ignores: oks[i] says whether the i-th write goes through.  A failed write of
\* the client clears _connected, which makes its later sends return at once.
RECURSIVE SendAll(_, _, _, _, _, _)
SendAll(im, cmds, oks, conn, wr, out) ==
    IF cmds = <<>> THEN [connected |-> conn, written |-> out]
    ELSE IF ~CanSend(im, conn, wr)
    THEN SendAll(im, Tail(cmds), Tail(oks), conn, wr, out)
    ELSE IF Head(oks)
    THEN SendAll(im, Tail(cmds), Tail(oks), conn, wr, Append(out, CommandBytes(Head(cmds))))
    ELSE SendAll(im, Tail(cmds), Tail(oks), IF im = "client" THEN FALSE ELSE conn,
                 wr, out)


(***************************************************************************)
(* Commands.                                                               *)
(***************************************************************************)
\* f"Z{zone}POW?"
ZonePowerQuery(zone) == <<"Z">> \o IntToStr(zone) \o POW \o <<"?">>

ECH0 == <<"E", "C", "H", "0">>
SIP1 == <<"S", "I", "P", "1">>
ICNQuery == <<"I", "C", "N", "?">>

\* the commands of the initialization sequence, in order
HandshakeCommands(im, cfg) ==
    CASE im = "head" ->
            LET enabled == SelectSeq(cfg.zones, LAMBDA zc : zc.enabled)
            IN <<ECH0, SIP1, ICNQuery>>
               \o [i \in 1..Len(enabled) |-> ZonePowerQuery(enabled[i].zone_number)]
      [] im = "main" -> <<ECH0, SIP1, ICNQuery, ZonePowerQuery(1)>>
      [] im = "client" -> <<ECH0, ICNQuery, ZonePowerQuery(1)>>

(***************************************************************************)
(* Configurations.                                                         *)
(***************************************************************************)
\* no setup attempt under way, no device stored
NoSetup ==
    [pc |-> "idle", flow |-> "none", host |-> "", tested |-> FALSE, open |-> FALSE,
     closed |-> FALSE, exit |-> "none", stored |-> {}, had |-> {}, outcome |-> "none"]

\* ZoneConfig(zone_number, enabled)
ZoneConfig(n, en) == [zone_number |-> n, enabled |-> en]

\* AnthemDeviceConfig's defaults: zones = [ZoneConfig(1)], discovered_inputs = []
DefaultConfig == [zones |-> <<ZoneConfig(1, TRUE)>>, discovered_inputs |-> <<>>]

(***************************************************************************)
(* Specifications of the read loop.  Each starts right after a successful  *)
(* connect: the socket is open, the handshake is written, the read loop is *)
(* suspended in its first read and nothing has been received.              *)
(***************************************************************************)
InitListening(cfgs) ==
    /\ impl \in Impls
    /\ config \in cfgs
    /\ wire = <<>>
    /\ peer_open = TRUE
    /\ nsent = 0
    /\ received = <<>>
    /\ buffer = <<>>
    /\ listening = TRUE
    /\ connected = TRUE
    /\ reader = TRUE
    /\ writer = TRUE
    /\ listen_task = IF impl = "client" THEN "running" ELSE "none"
    /\ zone_states = EmptyDict
    /\ input_count = 0
    /\ input_names = EmptyDict
    /\ input_discovery_complete = FALSE
    /\ state_cache = EmptyDict
    /\ events = <<>>
    /\ tasks = <<>>
    /\ processed = <<>>
    /\ written = Sent(HandshakeCommands(impl, config))
    /\ lock = "free"
    /\ cpc = "idle"
    /\ attempt = 0
    /\ dpc = "idle"
    /\ dfrom = "caller"
    /\ calls = <<>>
    /\ raised = FALSE
    /\ results = <<>>
    /\ convert = <<>>
    /\ senders = <<>>
    /\ setup = NoSetup

NextListening ==
    \/ \E f \in repertoire : DeviceSend(f)
    \/ \E n \in 1..Len(wire) : Read(n)
    \/ ReadTimeout
    \/ PeerClose
    \/ ReadEmpty

\* Framing: a line ended by each of the three terminators (one with a non-ASCII
\* byte inside) and a blank line, in any order and split at any byte
FramingFragments ==
    { <<"I", "C", "N", "1", ";">>,
      <<"I", "C", "N", "2", "\r">>,
      <<"I", "C", NonAscii, "N", "3", "\n">>,
      <<" ", ";">> }

Init ==
    /\ InitListening({DefaultConfig})
    /\ repertoire = FramingFragments

Spec == Init /\ [][NextListening]_vars


(***************************************************************************)
(* The state after construction, and the read loop fed with one read.      *)
(***************************************************************************)
InitEngine ==
    [zone_states |-> EmptyDict, input_count |-> 0, input_names |-> EmptyDict,
     input_discovery_complete |-> FALSE, state_cache |-> EmptyDict,
     events |-> <<>>, tasks |-> <<>>]

\* the characters at which an implementation's read loop splits
Terminators(im) == IF im = "client" THEN {"\r", "\n"} ELSE {";"}

Lines(log) == [i \in 1..Len(log) |-> log[i].line]

\* what the read loop yields when every byte received so far arrives in one read
OneRead == DrainBuffer(impl, Decode(received), 0, InitEngine, config, <<>>, 0, 0)

\* C1: for every inbound byte sequence and every way of splitting it into reads,
\* the read loop yields the same lines in the same order, and keeps the same
\* rest, as when the whole sequence arrives in a single read.
C1_ChunkIndependence ==
    /\ Lines(processed) = Lines(OneRead.log)
    /\ buffer = OneRead.buffer

\* C2: a line is handed to _process_response only at a terminator that has been
\* received; the buffer is what follows the last terminator received, so it is
\* what the next read is appended to; no processed line is empty or unstripped.
C2_NoLineBeforeTerminator ==
    LET decoded == Decode(received)
        terms == {p \in 1..Len(decoded) : decoded[p] \in Terminators(impl)}
        last == IF terms = {} THEN 0 ELSE CHOOSE p \in terms : \A q \in terms : q <= p
    IN /\ \A i \in 1..Len(processed) : processed[i].term \in terms
       /\ buffer = SubSeq(decoded, last + 1, Len(decoded))
       /\ \A i \in 1..Len(processed) :
             processed[i].line # <<>> /\ Strip(processed[i].line) = processed[i].line

\* C2's case: a line whose first bytes an earlier read left in the buffer has
\* been processed, and bytes after the last terminator are waiting in the buffer
C2_Witness ==
    /\ \E i \in 1..Len(processed) : processed[i].carried
    /\ buffer # <<>>

\* C3: lines are applied in the order of their terminators in the byte stream,
\* and one line's update is complete before the next one starts: every line is
\* applied to the store the line before it left.
C3_WireOrder ==
    /\ \A i, j \in 1..Len(processed) :
          i < j => processed[i].term < processed[j].term
    /\ \A i \in 1..Len(processed) :
          processed[i].pre = IF i = 1 THEN StoreOf(InitEngine)
                             ELSE processed[i - 1].post
    /\ processed # <<>> => processed[Len(processed)].post = StoreOf(Engine)

\* C3's case: two lines with different effects, applied by different reads
C3_Witness ==
    \E i \in 2..Len(processed) :
        /\ processed[i].nth = 1
        /\ processed[i].post.input_count # processed[i - 1].post.input_count


(***************************************************************************)
(* Specifications of line handling: the receiver writes whole lines, each  *)
(* ended by the terminator the implementation splits at; reads still cut   *)
(* the stream at any byte.                                                 *)
(***************************************************************************)
\* the terminator the receiver is taken to use towards an implementation
WireTerminator(im) == IF im = "client" THEN "\r" ELSE ";"

Terminated(lines, im) == {l \o <<WireTerminator(im)>> : l \in lines}

\* error responses with a zone payload and with a count payload, and a line
\* that does change the store
ErrorLines ==
    { <<"!", "I", "Z", "1", "P", "O", "W", "1">>,
      <<"!", "E", "I", "C", "N", "2">>,
      <<"Z", "1", "P", "O", "W", "1">> }

InitError ==
    /\ InitListening({DefaultConfig})
    /\ repertoire = Terminated(ErrorLines, impl)

SpecError == InitError /\ [][NextListening]_vars

\* power and volume reports
ZoneLines ==
    { <<"Z", "1", "P", "O", "W", "1">>,
      <<"Z", "1", "P", "O", "W", "0">>,
      <<"Z", "1", "2", "P", "O", "W", "0">>,
      <<"Z", "2", "P", "O", "W", "X">>,
      <<"Z", "1", "V", "O", "L", "5">>,
      <<"Z", "2", "V", "O", "L", "-", "4", "5">> }

InitZone ==
    /\ InitListening({DefaultConfig})
    /\ repertoire = Terminated(ZoneLines, impl)

SpecZone == InitZone /\ [][NextListening]_vars

\* the shape Z<zone><tag><value> of a line: its zone and the text after the tag
ZoneReport(line, tag) ==
    LET zm == MatchNumber(line, <<"Z">>)
        p == 2 + DigitRun(line, 2)
    IN IF zm.found /\ Len(line) >= p + Len(tag)
          /\ SubSeq(line, p, p + Len(tag) - 1) = tag
       THEN [found |-> TRUE, zone |-> zm.value,
             value |-> SubSeq(line, p + Len(tag), Len(line))]
       ELSE [found |-> FALSE, zone |-> 0, value |-> <<>>]

\* the value cached for a zone under a key, with whether there is one
Cached(store, zone, key) ==
    IF zone \in DOMAIN store.zone_states /\ key \in DOMAIN store.zone_states[zone]
    THEN <<TRUE, store.zone_states[zone][key]>>
    ELSE <<FALSE>>

\* C4: a line that begins with !I or !E changes nothing of the store, emits no
\* notification, starts no task and raises nothing, whatever follows the prefix.
C4_ErrorLinesChangeNothing ==
    /\ ~raised
    /\ \A i \in 1..Len(processed) :
          IsErrorLine(processed[i].line) =>
             /\ processed[i].post = processed[i].pre
             /\ processed[i].emitted = 0
             /\ processed[i].started = 0

\* C4's case: an error line with a zone payload was handled when the store
\* already held a zone record
C4_Witness ==
    \E i \in 1..Len(processed) :
        /\ IsErrorLine(processed[i].line)
        /\ Contains(processed[i].line, <<"Z">>)
        /\ processed[i].pre.zone_states # EmptyDict

\* C5: after the line Z{z}POW1 the cached power of zone z is true, after the line
\* Z{z}POW0 it is false, for every zone number z.
C5_PowerFollowsReport ==
    \A i \in 1..Len(processed) :
        LET r == ZoneReport(processed[i].line, POW)
        IN /\ (r.found /\ r.value = <<"1">>) =>
                 Cached(processed[i].post, r.zone, "power") = <<TRUE, TRUE>>
           /\ (r.found /\ r.value = <<"0">>) =>
                 Cached(processed[i].post, r.zone, "power") = <<TRUE, FALSE>>

\* C6: a power line whose value is neither 0 nor 1 leaves the zone's cached power
\* as it was and emits no notification.
C6_BadPowerIgnored ==
    \A i \in 1..Len(processed) :
        LET r == ZoneReport(processed[i].line, POW)
        IN (r.found /\ r.value \notin {<<"0">>, <<"1">>}) =>
              /\ Cached(processed[i].post, r.zone, "power")
                    = Cached(processed[i].pre, r.zone, "power")
              /\ processed[i].emitted = 0

\* C7: a volume line whose value lies outside -90..0 leaves the zone's cached
\* volume as it was and emits no notification.
C7_OutOfRangeVolumeIgnored ==
    \A i \in 1..Len(processed) :
        LET r == ZoneReport(processed[i].line, VOL)
            v == SearchSigned(processed[i].line, VOL)
        IN (r.found /\ v.found /\ v.value \notin -90..0) =>
              /\ Cached(processed[i].post, r.zone, VolumeKey(impl))
                    = Cached(processed[i].pre, r.zone, VolumeKey(impl))
              /\ processed[i].emitted = 0

\* C8: every cached zone volume is an integer in -90..0.
C8_VolumeInRange ==
    \A z \in DOMAIN zone_states :
        VolumeKey(impl) \in DOMAIN zone_states[z] =>
            zone_states[z][VolumeKey(impl)] \in -90..0

(***************************************************************************)
(* Specification of input discovery: the receiver answers ICN? and the     *)
(* ISN queries, for a device configured with one zone or with two.         *)
(***************************************************************************)
\* AnthemDeviceConfig with zones = [ZoneConfig(1), ZoneConfig(2)]
TwoZoneConfig ==
    [zones |-> <<ZoneConfig(1, TRUE), ZoneConfig(2, TRUE)>>,
     discovered_inputs |-> <<>>]

CountLine == <<"I", "C", "N", "2">>

NameLines == << <<"I", "S", "N", "0", "1", "A">>, <<"I", "S", "N", "0", "2", "B">> >>

InitDiscovery ==
    /\ InitListening({DefaultConfig, TwoZoneConfig})
    /\ repertoire = Terminated({CountLine, NameLines[1], NameLines[2]}, impl)

SpecDiscovery == InitDiscovery /\ [][NextListening]_vars

\* C9: once ICN2 and then the names of inputs 1 and 2 have been handled, the input
\* count is 2, get_input_list() is those two names in index order, and exactly one
\* notification was emitted, by the second name and not by the first.
C9_DiscoveryCompletesOnce ==
    Lines(processed) = <<CountLine>> \o NameLines =>
        /\ input_count = 2
        /\ get_input_list(impl, config, input_names, input_count) = << <<"A">>, <<"B">> >>
        /\ processed[1].emitted = 0
        /\ processed[2].emitted = 0
        /\ processed[3].emitted = 1

(***************************************************************************)
(* The connection.  AnthemClient.connect() and disconnect() are modelled   *)
(* step by step, each step running from one suspension point to the next;  *)
(* a call that waits for _lock is resumed when the lock is free.           *)
(* AnthemDevice.establish_connection() and close_connection() are called   *)
(* by a framework that is not part of the repository: they are modelled as *)
(* whole calls, and the model starts no read loop for them.                *)
(***************************************************************************)
\* connect(): max_retries
max_retries == 3

\* disconnect() returning early whenever the engine is not connected
NothingToCloseEither(conn, wr) == ~conn \/ ~wr

\* disconnect() returning early whenever the engine is not connected, writer or not
NothingToCloseWhenIdle(conn, wr) == ~conn

\* disconnect(): if not self._connected and not self._writer: return
NothingToClose(conn, wr) == ~conn /\ ~wr

Returned(call) == calls' = Append(calls, call)

\* connect() is called
Connect ==
    /\ impl = "client"
    /\ cpc = "idle"
    /\ Len(calls) < MaxCalls
    /\ cpc' = "wait"
    /\ attempt' = 0
    /\ UNCHANGED <<listening, connected, reader, writer, listen_task, streamVars,
                   fixedVars, storeVars, written, lock, dpc, dfrom, calls, raised>>
    /\ UNCHANGED cmdVars

\* connect() takes the lock: it returns at once when connected, else it opens the
\* connection; ok says whether open_connection succeeds within the timeout.  On
\* success the read loop is started and runs up to its first read.
ConnectEnter(ok) ==
    /\ cpc = "wait"
    /\ lock = "free"
    /\ IF connected
       THEN /\ cpc' = "idle"
            /\ Returned("connect")
            /\ UNCHANGED <<listening, connected, reader, writer, listen_task,
                           streamVars, lock>>
       ELSE IF ok
       THEN /\ reader' = TRUE
            /\ writer' = TRUE
            /\ connected' = TRUE
            /\ listen_task' = "running"
            /\ listening' = TRUE
            /\ wire' = <<>>
            /\ peer_open' = TRUE
            /\ received' = <<>>
            /\ buffer' = <<>>
            /\ lock' = "connect"
            /\ cpc' = "opened"
            /\ UNCHANGED <<nsent, calls>>
       ELSE /\ cpc' = "failed"
            /\ UNCHANGED <<listening, connected, reader, writer, listen_task,
                           streamVars, lock, calls>>
    /\ UNCHANGED <<fixedVars, storeVars, written, attempt, dpc, dfrom, raised>>
    /\ UNCHANGED cmdVars

\* connect() writes the initialization sequence, releases the lock and returns
ConnectHandshake ==
    /\ cpc = "opened"
    /\ LET cmds == HandshakeCommands(impl, config)
           r == SendAll(impl, cmds, [i \in 1..Len(cmds) |-> TRUE],
                        connected, writer, written)
       IN /\ written' = r.written
          /\ connected' = r.connected
    /\ lock' = "free"
    /\ cpc' = "idle"
    /\ Returned("connect")
    /\ UNCHANGED <<listening, reader, writer, listen_task, streamVars, fixedVars,
                   storeVars, attempt, dpc, dfrom, raised>>
    /\ UNCHANGED cmdVars

\* connect()'s except clauses: await self.disconnect()
ConnectFailed ==
    /\ cpc = "failed"
    /\ dpc = "idle"
    /\ cpc' = "cleanup"
    /\ dpc' = "wait"
    /\ dfrom' = "connect"
    /\ UNCHANGED <<listening, connected, reader, writer, listen_task, streamVars,
                   fixedVars, storeVars, written, lock, attempt, calls, raised>>
    /\ UNCHANGED cmdVars

\* disconnect() is called
Disconnect ==
    /\ impl = "client"
    /\ dpc = "idle"
    /\ Len(calls) < MaxCalls
    /\ dpc' = "wait"
    /\ dfrom' = "caller"
    /\ UNCHANGED <<listening, connected, reader, writer, listen_task, streamVars,
                   fixedVars, storeVars, written, lock, cpc, attempt, calls, raised>>
    /\ UNCHANGED cmdVars

\* disconnect() returns: to its caller, or into connect()'s retry loop, which
\* goes on to the next attempt or returns False after the last
DisconnectReturns ==
    /\ dpc' = "idle"
    /\ IF dfrom = "caller"
       THEN /\ Returned("disconnect")
            /\ UNCHANGED <<cpc, attempt>>
       ELSE IF attempt < max_retries - 1
       THEN /\ attempt' = attempt + 1
            /\ cpc' = "wait"
            /\ UNCHANGED calls
       ELSE /\ cpc' = "idle"
            /\ Returned("connect_failed")
            /\ UNCHANGED attempt

\* disconnect() going straight on to close the writer
AfterLockClose(task) == "close"

\* disconnect(): if self._listen_task: cancel it and await it, before closing
AfterLock(task) == IF task # "none" THEN "cancel" ELSE "close"

\* disconnect() takes the lock: it returns at once when there is nothing to close,
\* else it cancels the read loop's task, if there is one
DisconnectEnter ==
    /\ dpc = "wait"
    /\ lock = "free"
    /\ IF NothingToClose(connected, writer)
       THEN /\ DisconnectReturns
            /\ UNCHANGED lock
       ELSE /\ lock' = "disconnect"
            /\ dpc' = AfterLock(listen_task)
            /\ UNCHANGED <<cpc, attempt, calls>>
    /\ UNCHANGED <<listening, connected, reader, writer, listen_task, streamVars,
                   fixedVars, storeVars, written, dfrom, raised>>
    /\ UNCHANGED cmdVars

\* await self._listen_task: the cancelled loop breaks, the task is over
DisconnectCancelled ==
    /\ dpc = "cancel"
    /\ listening' = FALSE
    /\ listen_task' = "none"
    /\ dpc' = "close"
    /\ UNCHANGED <<connected, reader, writer, streamVars, fixedVars, storeVars,
                   written, lock, cpc, attempt, dfrom, calls, raised>>
    /\ UNCHANGED cmdVars

\* disconnect() closes the writer, clears the connection and releases the lock
DisconnectClose ==
    /\ dpc = "close"
    /\ connected' = FALSE
    /\ reader' = FALSE
    /\ writer' = FALSE
    /\ lock' = "free"
    /\ DisconnectReturns
    /\ UNCHANGED <<listening, listen_task, streamVars, fixedVars, storeVars,
                   written, dfrom, raised>>
    /\ UNCHANGED cmdVars

\* AnthemDevice.establish_connection(): ok says whether open_connection succeeds
EstablishConnection(ok) ==
    /\ impl # "client"
    /\ Len(calls) < MaxCalls
    /\ IF ok
       THEN /\ reader' = TRUE
            /\ writer' = TRUE
            /\ wire' = <<>>
            /\ peer_open' = TRUE
            /\ LET cmds == HandshakeCommands(impl, config)
               IN written' = SendAll(impl, cmds, [i \in 1..Len(cmds) |-> TRUE],
                                     connected, TRUE, written).written
            /\ Returned("establish")
       ELSE /\ Returned(IF impl = "head" THEN "establish_raised"
                        ELSE "establish_false")
            /\ UNCHANGED <<reader, writer, wire, peer_open, written>>
    /\ UNCHANGED <<listening, connected, listen_task, nsent, received, buffer,
                   fixedVars, storeVars, lock, cpc, attempt, dpc, dfrom, raised>>
    /\ UNCHANGED cmdVars

\* AnthemDevice.close_connection()
close_connection ==
    /\ impl # "client"
    /\ Len(calls) < MaxCalls
    /\ reader' = FALSE
    /\ writer' = FALSE
    /\ Returned("close")
    /\ UNCHANGED <<listening, connected, listen_task, streamVars, fixedVars,
                   storeVars, written, lock, cpc, attempt, dpc, dfrom, raised>>
    /\ UNCHANGED cmdVars

\* the state after construction with one of the configurations cfgs, but for the
\* volume under conversion
ConstructedWith(cfgs) ==
    /\ impl \in Impls
    /\ config \in cfgs
    /\ repertoire = {}
    /\ wire = <<>>
    /\ peer_open = FALSE
    /\ nsent = 0
    /\ received = <<>>
    /\ buffer = <<>>
    /\ listening = FALSE
    /\ connected = FALSE
    /\ reader = FALSE
    /\ writer = FALSE
    /\ listen_task = "none"
    /\ zone_states = EmptyDict
    /\ input_count = 0
    /\ input_names = EmptyDict
    /\ input_discovery_complete = FALSE
    /\ state_cache = EmptyDict
    /\ events = <<>>
    /\ tasks = <<>>
    /\ processed = <<>>
    /\ written = <<>>
    /\ lock = "free"
    /\ cpc = "idle"
    /\ attempt = 0
    /\ dpc = "idle"
    /\ dfrom = "caller"
    /\ calls = <<>>
    /\ raised = FALSE
    /\ results = <<>>
    /\ senders = <<>>
    /\ setup = NoSetup

Constructed == ConstructedWith({DefaultConfig})

InitConstructed == Constructed /\ convert = <<>>

NextConn ==
    \/ Connect
    \/ \E ok \in BOOLEAN : ConnectEnter(ok)
    \/ ConnectHandshake
    \/ ConnectFailed
    \/ Disconnect
    \/ DisconnectEnter
    \/ DisconnectCancelled
    \/ DisconnectClose
    \/ \E ok \in BOOLEAN : EstablishConnection(ok)
    \/ close_connection
    \/ PeerClose
    \/ ReadEmpty
    \/ ReadTimeout

SpecConn == InitConstructed /\ [][NextConn]_vars

\* C10: whenever the last call to have returned is disconnect() (close_connection()
\* for the device) and no connection has been opened since, the engine has no
\* reader and no writer, and the client is not connected and has no read-loop
\* task: so after a second disconnect() in a row, and after a disconnect() that
\* no connect() preceded.
C10_DisconnectIdempotent ==
    (calls # <<>> /\ calls[Len(calls)] \in {"disconnect", "close"} /\ cpc # "opened") =>
        /\ ~reader
        /\ ~writer
        /\ impl = "client" => (~connected /\ listen_task = "none" /\ ~listening)
        /\ ~raised

\* C10's case: a connection was made, and disconnect() has returned twice in a row
C10_Witness ==
    /\ impl = "client"
    /\ calls = <<"connect", "disconnect", "disconnect">>
    /\ written # <<>>

(***************************************************************************)
(* Volume conversion of the media player entity.  A percentage is held in  *)
(* ninths of a percent, which makes ((db + 90) / 90) * 100 an integer:     *)
(* (db + 90) * 10 ninths.  The code computes in doubles; over the          *)
(* percentages the conversions produce for -90..0 dB, the double product   *)
(* pct * 90 / 100 falls short of the exact integer for the five values of  *)
(* RoundsDown, and is exact at 0, 50 and 100 percent.                      *)
(***************************************************************************)
Ninths(pct) == 9 * pct

Clamp(lo, hi, x) == IF x < lo THEN lo ELSE IF x > hi THEN hi ELSE x

\* AnthemMediaPlayer._db_to_percentage
_db_to_percentage(db_value) == Clamp(0, Ninths(100), (db_value + 90) * 10)

\* the percentages (in ninths) whose double, times 90 / 100, is just below an integer
RoundsDown == {350, 470, 610, 700, 750}

\* handle_command with db_range 100 for 90
VolumeCommandDbCentered(pct9) == TruncDiv(pct9, 9) - 90

\* handle_command, Commands.VOLUME: int((volume_pct * 90 / 100) - 90)
VolumeCommandDb(pct9) ==
    TruncDiv(pct9 - Ninths(100), 10) + (IF pct9 \in RoundsDown THEN 1 ELSE 0)

\* AnthemMediaPlayer._percentage_to_db
_percentage_to_db(pct9) == Clamp(-90, 0, VolumeCommandDb(pct9))

\* a volume in dB becomes the percentage of the entity's volume attribute: the
\* HEAD side converts in the device, the main side in the driver
ToPercentage ==
    /\ Len(convert) = 1
    /\ convert' = Append(convert, IF impl = "head"
                                  THEN Ninths(VolumePct(convert[1]))
                                  ELSE _db_to_percentage(convert[1]))
    /\ UNCHANGED <<engineVars, streamVars, fixedVars, storeVars, callVars, results,
                   senders, setup>>

\* the percentage becomes a volume in dB again
ToDb ==
    /\ Len(convert) = 2
    /\ \E by \in {"handle_command", "_percentage_to_db"} :
          /\ by = "_percentage_to_db" => impl = "main"
          /\ convert' = Append(convert, IF by = "handle_command"
                                        THEN VolumeCommandDb(convert[2])
                                        ELSE _percentage_to_db(convert[2]))
    /\ UNCHANGED <<engineVars, streamVars, fixedVars, storeVars, callVars, results,
                   senders, setup>>

InitVolume ==
    /\ Constructed
    /\ impl # "client"
    /\ \E db \in -90..0 : convert = <<db>>

NextVolume == ToPercentage \/ ToDb

SpecVolume == InitVolume /\ [][NextVolume]_vars

\* C11: -90 dB is 0 percent and 0 dB is 100 percent, and for each of -90, -45
\* and 0 dB the percentage converted back gives the same dB value.
C11_VolumeRoundTrip ==
    /\ (Len(convert) >= 2 /\ convert[1] = -90) => convert[2] = Ninths(0)
    /\ (Len(convert) >= 2 /\ convert[1] = 0) => convert[2] = Ninths(100)
    /\ (Len(convert) = 3 /\ convert[1] \in {-90, -45, 0}) => convert[3] = convert[1]

\* C11's case: -45 dB went to 50 percent and back
C11_Witness ==
    /\ Len(convert) = 3
    /\ convert[1] = -45
    /\ convert[2] = Ninths(50)

\* C12: when the same volume report for a zone is handled twice in succession, the
\* second handling emits no notification.
C12_RepeatedVolumeEmitsOnce ==
    \A i \in 1..(Len(processed) - 1) :
        LET r == ZoneReport(processed[i].line, VOL)
        IN (r.found /\ SearchSigned(processed[i].line, VOL).found
            /\ processed[i + 1].line = processed[i].line) =>
              processed[i + 1].emitted = 0

(***************************************************************************)
(* The command methods.  A call is modelled whole: the commands it hands   *)
(* to _send_command, in order, and what it returns.                        *)
(***************************************************************************)
\* f"{volume}" of an integer
SignedToStr(n) == IF n < 0 THEN <<"-">> \o IntToStr(0 - n) ELSE IntToStr(n)

\* f"Z{zone}..."
ZoneCommand(zone, rest) == <<"Z">> \o IntToStr(zone) \o rest

\* set_volume sending the value as given
RawVolume(volume) == volume

\* set_volume: volume = max(-90, min(0, volume))
ClampedVolume(volume) == Clamp(-90, 0, volume)

\* the methods that send one command and return what _send_command returned
SingleMethods(im) ==
    {"power_on", "power_off", "set_volume", "volume_up", "volume_down",
     "set_mute", "select_input"}
    \cup (IF im = "head" THEN {}
          ELSE {"query_power", "query_volume", "query_mute", "query_input",
                "query_model"})
    \cup (IF im = "client" THEN {"query_input_name"} ELSE {})

\* the methods that send several commands and return True
AggregateMethods(im) == IF im = "head" THEN {"query_status"} ELSE {"query_all_status"}

StatusQueries(im, zone) ==
    << ZoneCommand(zone, POW \o <<"?">>), ZoneCommand(zone, VOL \o <<"?">>),
       ZoneCommand(zone, MUT \o <<"?">>), ZoneCommand(zone, INP \o <<"?">>) >>
    \o (IF im = "client" THEN << ZoneCommand(zone, SIP \o <<"?">>) >> ELSE <<>>)

\* the commands a method hands to _send_command, in order, when each is sent
MethodCommands(im, method, zone, arg) ==
    CASE method = "power_on" -> << ZoneCommand(zone, POW \o <<"1">>) >>
      [] method = "power_off" -> << ZoneCommand(zone, POW \o <<"0">>) >>
      [] method = "set_volume" ->
            << ZoneCommand(zone, VOL \o SignedToStr(ClampedVolume(arg))) >>
      [] method = "volume_up" -> << ZoneCommand(zone, <<"V", "U", "P">>) >>
      [] method = "volume_down" -> << ZoneCommand(zone, <<"V", "D", "N">>) >>
      [] method = "set_mute" ->
            << ZoneCommand(zone, MUT \o (IF arg = 1 THEN <<"1">> ELSE <<"0">>)) >>
      [] method = "select_input" ->
            << ZoneCommand(zone, INP \o IntToStr(arg)) >>
            \o (IF im = "client" THEN << ZoneCommand(zone, SIP \o <<"?">>) >> ELSE <<>>)
      [] method = "query_power" -> << ZoneCommand(zone, POW \o <<"?">>) >>
      [] method = "query_volume" -> << ZoneCommand(zone, VOL \o <<"?">>) >>
      [] method = "query_mute" -> << ZoneCommand(zone, MUT \o <<"?">>) >>
      [] method = "query_input" -> << ZoneCommand(zone, INP \o <<"?">>) >>
      [] method = "query_input_name" -> << ZoneCommand(zone, SIP \o <<"?">>) >>
      [] method = "query_model" -> << <<"I", "D", "M", "?">> >>
      [] method \in {"query_status", "query_all_status"} -> StatusQueries(im, zone)

\* the arguments a method is called with, besides the zone
MethodArgs(method) ==
    CASE method = "set_volume" -> {-100, -45, 7}
      [] method = "set_mute" -> {0, 1}
      [] method = "select_input" -> {3}
      [] OTHER -> {0}

CommandZones == {1, 2}

\* a command method is called and returns; fails says whether write() or drain()
\* raise, which they can only once the receiver has closed the connection
CommandCall(method, zone, arg, fails) ==
    /\ Len(results) < MaxCommands
    /\ method \in SingleMethods(impl) \cup AggregateMethods(impl)
    /\ zone \in CommandZones
    /\ arg \in MethodArgs(method)
    /\ fails => ~peer_open /\ CanSend(impl, connected, writer)
    /\ LET cmds == MethodCommands(impl, method, zone, arg)
           first == CanSend(impl, connected, writer) /\ ~fails
           todo == IF method = "select_input" /\ ~first THEN <<cmds[1]>> ELSE cmds
           r == SendAll(impl, todo, [i \in 1..Len(todo) |-> ~fails],
                        connected, writer, written)
       IN /\ written' = r.written
          /\ connected' = r.connected
          /\ results' = Append(results,
                 [method |-> method, zone |-> zone, arg |-> arg,
                  socket |-> writer, failed |-> fails,
                  ok |-> IF method \in AggregateMethods(impl) THEN TRUE ELSE first,
                  wrote |-> SubSeq(r.written, Len(written) + 1, Len(r.written))])
    /\ UNCHANGED <<listening, reader, writer, listen_task, streamVars, fixedVars,
                   storeVars, lock, cpc, attempt, dpc, dfrom, calls, raised, convert,
                   senders, setup>>

Methods ==
    {"power_on", "power_off", "set_volume", "volume_up", "volume_down", "set_mute",
     "select_input", "query_power", "query_volume", "query_mute", "query_input",
     "query_input_name", "query_model", "query_status", "query_all_status"}

\* the engine as constructed, or connected with its read loop listening
InitCommand ==
    \/ InitConstructed
    \/ InitListening({DefaultConfig}) /\ repertoire = {}

NextCommand ==
    \/ \E method \in Methods, zone \in CommandZones, arg \in {-100, -45, 0, 1, 3, 7},
          fails \in BOOLEAN : CommandCall(method, zone, arg, fails)
    \/ PeerClose
    \/ ReadEmpty
    \/ Disconnect
    \/ DisconnectEnter
    \/ DisconnectCancelled
    \/ DisconnectClose
    \/ close_connection

SpecCommand == InitCommand /\ [][NextCommand]_vars

\* C13: a command method called while the socket is not open writes nothing and
\* returns failure, and nothing is raised.
C13_ClosedSocketFails ==
    /\ ~raised
    /\ \A i \in 1..Len(results) :
          ~results[i].socket => (results[i].wrote = <<>> /\ ~results[i].ok)

\* C14: set_volume(V, zone) writes Z{zone}VOL{V'} with V' = max(-90, min(0, V)), and
\* no volume command with a value outside -90..0 is ever written.
C14_VolumeClampedBeforeEncoding ==
    /\ \A i \in 1..Len(results) :
          (results[i].method = "set_volume" /\ results[i].wrote # <<>>) =>
             results[i].wrote =
                Sent(<< ZoneCommand(results[i].zone,
                                    VOL \o SignedToStr(Clamp(-90, 0, results[i].arg))) >>)
    /\ \A k \in 1..Len(written) :
          LET v == SearchSigned(written[k], VOL)
          IN v.found => v.value \in -90..0

\* C14's case: set_volume(7) wrote a volume command
C14_Witness ==
    \E i \in 1..Len(results) :
        /\ results[i].method = "set_volume"
        /\ results[i].arg = 7
        /\ results[i].wrote # <<>>

\* C15: when a read returns no bytes, the loop exits, the engine is left not
\* connected with its reader and writer released, and a notification is emitted.
C15_EmptyReadDisconnects ==
    [][ReadEmpty => (/\ ~listening'
                     /\ ~connected'
                     /\ ~reader'
                     /\ ~writer'
                     /\ Len(events') > Len(events))]_vars

\* C16: whenever connecting writes a handshake command, the read loop has been
\* started.
C16_LoopBeforeHandshake ==
    [][written' # written => (listening \/ listen_task # "none")]_vars

IDMQuery == <<"I", "D", "M", "?">>

\* C17: after the first successful connect, with the receiver still there, the
\* commands written are ECH0, SIP1, IDM?, ICN? and then the power query of each
\* enabled zone, each once and in this order.
C17_HandshakeOrder ==
    (calls \in {<<"connect">>, <<"establish">>} /\ peer_open) =>
        LET enabled == SelectSeq(config.zones, LAMBDA zc : zc.enabled)
        IN written = Sent(<<ECH0, SIP1, IDMQuery, ICNQuery>>
                          \o [i \in 1..Len(enabled) |->
                                 ZonePowerQuery(enabled[i].zone_number)])

\* C18: connect() returns success only with the engine connected and its writer
\* set, and, when it has just opened the connection, with every handshake command
\* written.
C18_NoSuccessWhileDisconnected ==
    [][calls' = Append(calls, "connect") =>
          /\ connected'
          /\ writer'
          /\ cpc = "opened" =>
                written' = written \o Sent(HandshakeCommands(impl, config))]_vars

\* C19: a call to connect() never goes on to a second attempt.
C19_SingleAttempt == attempt = 0

\* C20: once disconnect() has closed the writer, the client's read loop is not
\* running: the writer is closed only after the loop has ended.
C20_LoopEndsBeforeClose ==
    impl = "client" =>
        /\ ~writer => (~listening /\ listen_task # "running")
        /\ dpc = "close" => ~listening

\* C20's case: disconnect() has cancelled a loop that was waiting for data from a
\* receiver that is still there, and is about to close the writer
C20_Witness ==
    /\ impl = "client"
    /\ dpc = "close"
    /\ writer
    /\ peer_open
    /\ ~listening
    /\ listen_task = "none"

(***************************************************************************)
(* Terminators.                                                            *)
(***************************************************************************)
\* C21: every command written to the socket ends with the character at which the
\* read loop splits inbound bytes into lines: fed to the loop, the bytes of a
\* write would be cut at their last character.
C21_OneTerminator ==
    \A k \in 1..Len(written) :
        SplitIndex(impl, written[k]) = Len(written[k])

(***************************************************************************)
(* Rounded conversions.                                                    *)
(***************************************************************************)
\* C22: the percentage reported for a volume of d dB is round((d + 90) / 90 * 100),
\* and the dB value sent for an integer percentage p is round(p * 90 / 100 - 90),
\* both clamped to their ranges; round takes the nearest integer, a tie to the
\* even one.
C22_RoundedConversions ==
    LET Round(x, d) == LET q == x \div d
                           r == x - q * d
                       IN IF 2 * r < d THEN q
                          ELSE IF 2 * r > d THEN q + 1
                          ELSE IF q % 2 = 0 THEN q ELSE q + 1
    IN /\ Len(convert) >= 2 =>
            convert[2] = Ninths(Clamp(0, 100, Round((convert[1] + 90) * 100, 90)))
       /\ (Len(convert) = 3 /\ convert[2] % 9 = 0) =>
            convert[3] = Clamp(-90, 0, Round(10 * convert[2] - 9000, 100))

(***************************************************************************)
(* Read timeouts.                                                          *)
(***************************************************************************)
\* C23: a read timeout leaves the connection state, the reader, the writer and
\* the partial-line buffer as they are, emits nothing, and, the engine being
\* connected, leaves the loop waiting in its next read.
C23_TimeoutIsNotAnError ==
    [][ReadTimeout => (/\ connected' = connected
                       /\ reader' = reader
                       /\ writer' = writer
                       /\ buffer' = buffer
                       /\ events' = events
                       /\ (connected /\ reader) => listening')]_vars

\* C23's case: the loop waits in a read with part of a line in its buffer while
\* nothing more arrives from a receiver that is still there, so the read times out
C23_Witness ==
    /\ listening
    /\ buffer # <<>>
    /\ processed # <<>>
    /\ wire = <<>>
    /\ peer_open

(***************************************************************************)
(* Specification of connecting with several zones configured: both zones   *)
(* enabled, or zone 1 disabled and zone 2 enabled.                         *)
(***************************************************************************)
\* AnthemDeviceConfig with zones = [ZoneConfig(1, enabled=False), ZoneConfig(2)]
SecondZoneConfig ==
    [zones |-> <<ZoneConfig(1, FALSE), ZoneConfig(2, TRUE)>>,
     discovered_inputs |-> <<>>]

InitHandshake ==
    /\ ConstructedWith({DefaultConfig, TwoZoneConfig, SecondZoneConfig})
    /\ convert = <<>>

SpecHandshake == InitHandshake /\ [][NextConn]_vars

\* C24: after the first successful connect, with the receiver still there, the
\* zones whose power query Z{z}POW? was written are exactly the zones that are
\* configured and enabled.
C24_PowerQueryPerEnabledZone ==
    (calls \in {<<"connect">>, <<"establish">>} /\ peer_open) =>
        {z \in {1, 2, 3} : \E k \in 1..Len(written) :
                              written[k] = CommandBytes(ZonePowerQuery(z))}
        = {config.zones[i].zone_number :
              i \in {j \in 1..Len(config.zones) : config.zones[j].enabled}}

(***************************************************************************)
(* Write failures.                                                         *)
(***************************************************************************)
\* C25: a command method whose write fails returns failure and leaves the engine
\* not connected with a notification emitted, and every command method called
\* after it writes nothing and returns failure.
C25_WriteFailureIsTerminal ==
    /\ [][(results' # results /\ results'[Len(results')].failed) =>
             /\ results'[Len(results')].method \in SingleMethods(impl) =>
                   ~results'[Len(results')].ok
             /\ ~connected'
             /\ Len(events') > Len(events)]_vars
    /\ [](\A i, j \in 1..Len(results) :
             (i < j /\ results[i].failed) =>
                 /\ results[j].wrote = <<>>
                 /\ results[j].method \in SingleMethods(impl) => ~results[j].ok)

(***************************************************************************)
(* Termination of disconnect().  The calls are tasks of one event loop:    *)
(* a task that can run does run, the lock is handed to a waiter once it is *)
(* free for good, and connect() in possession of the lock finishes its     *)
(* handshake.                                                              *)
(***************************************************************************)
SpecConnFair ==
    /\ SpecConn
    /\ WF_vars(DisconnectEnter)
    /\ WF_vars(DisconnectCancelled)
    /\ WF_vars(DisconnectClose)
    /\ WF_vars(ConnectHandshake)

ISN == <<"I", "S", "N">>

\* f"{input_num:02d}"
TwoDigits(n) == IF n < 10 THEN <<"0">> \o IntToStr(n) ELSE IntToStr(n)

\* f"ISN{input_num:02d}?"; the client writes it without the question mark
NameQuery(im, input_num) ==
    ISN \o TwoDigits(input_num) \o (IF im = "client" THEN <<>> ELSE <<"?">>)

\* the queries of a loop over range(count)
NameQueriesFromZero(im, count) == [i \in 1..count |-> NameQuery(im, i - 1)]

\* for input_num in range(1, self._input_count + 1)
NameQueries(im, count) == [i \in 1..count |-> NameQuery(im, i)]

\* the oldest task started runs
RunDiscovery ==
    /\ tasks # <<>>
    /\ Head(tasks).kind = "discover_input_names"
    /\ tasks' = Tail(tasks)
    /\ LET cmds == NameQueries(impl, input_count)
           r == SendAll(impl, cmds, [i \in 1..Len(cmds) |-> TRUE],
                        connected, writer, written)
       IN /\ written' = r.written
          /\ results' = Append(results,
                 [method |-> "_discover_input_names", zone |-> 0,
                  arg |-> input_count, after |-> Len(processed),
                  socket |-> CanSend(impl, connected, writer), failed |-> FALSE,
                  ok |-> TRUE,
                  wrote |-> SubSeq(r.written, Len(written) + 1, Len(r.written))])
    /\ UNCHANGED <<engineVars, streamVars, fixedVars, zone_states, input_count,
                   input_names, input_discovery_complete, state_cache, events,
                   processed, lock, cpc, attempt, dpc, dfrom, calls, raised,
                   convert, senders, setup>>

\* input-count responses with no input and with two inputs
CountLines == { <<"I", "C", "N", "0">>, <<"I", "C", "N", "2">> }

InitQueries ==
    /\ InitListening({DefaultConfig})
    /\ repertoire = Terminated(CountLines, impl)

NextQueries == NextListening \/ RunDiscovery

SpecQueries == InitQueries /\ [][NextQueries]_vars

\* the count of the latest ICN response among the first n lines handled; 0 if none
LatestCount(n) ==
    LET icn == {j \in 1..n : MatchNumber(processed[j].line, <<"I", "C", "N">>).found}
    IN IF icn = {} THEN 0
       ELSE MatchNumber(processed[CHOOSE j \in icn : \A k \in icn : k <= j].line,
                        <<"I", "C", "N">>).value

C28_OlderFormatWithoutModel ==
    \A i \in 1..Len(results) :
        (/\ results[i].method = "_discover_input_names"
         /\ \A j \in 1..results[i].after :
               ~StartsWith(processed[j].line, <<"I", "D", "M">>)) =>
            \A k \in 1..Len(results[i].wrote) :
                results[i].wrote[k]
                = CommandBytes(<<"I", "S">> \o IntToStr(k) \o <<"I", "N", "?">>)

(***************************************************************************)
(* Partial discovery.                                                      *)
(***************************************************************************)
\* C29: when the input count is n > 0 and some but not all of the names of the
\* inputs 1..n have been received, get_input_list() has exactly n entries, the
\* i-th being the received name of input i, or "Input i" when it is missing.
C29_PartialNamesFilled ==
    LET got == DOMAIN input_names \cap 1..input_count
        list == get_input_list(impl, config, input_names, input_count)
    IN (input_count > 0 /\ got # {} /\ got # 1..input_count) =>
          /\ Len(list) = input_count
          /\ \A i \in 1..input_count :
                list[i] = IF i \in DOMAIN input_names THEN input_names[i]
                          ELSE InputLabel(i)

\* C30: whenever discovery is marked complete, or a notification of the input
\* list has been emitted, the number of stored input names equals the input count.
C30_CompleteMeansAllNames ==
    (input_discovery_complete \/ events # <<>>) =>
        Cardinality(DOMAIN input_names) = input_count

(***************************************************************************)
(* Specification of unrecognized lines: a zone line with an unknown        *)
(* sub-tag, a line with an unknown prefix, and a power report.             *)
(***************************************************************************)
UnknownLines == { <<"Z", "2", "X", "Y">>, <<"Q", "Q">> }

InitUnknown ==
    /\ InitListening({DefaultConfig})
    /\ repertoire = Terminated(UnknownLines \cup {<<"Z", "1", "P", "O", "W", "1">>}, impl)

SpecUnknown == InitUnknown /\ [][NextListening]_vars

\* C31: a line with an unknown prefix, or Z<digits> followed by an unknown
\* sub-tag, leaves the zone store and the capability table as they were and
\* emits no notification.
C31_UnknownLinesChangeNothing ==
    \A i \in 1..Len(processed) :
        processed[i].line \in UnknownLines =>
            /\ processed[i].post = processed[i].pre
            /\ processed[i].emitted = 0

(***************************************************************************)
(* One connection.  A socket stays open until the engine closes its        *)
(* writer, and a read loop runs until it breaks or is cancelled.           *)
(***************************************************************************)
\* C32: whenever the engine opens a connection, it holds no writer of an earlier
\* connection that it has not closed, and no read loop of an earlier connection
\* is running.
C32_SingleConnection ==
    [][((cpc = "wait" /\ cpc' = "opened") \/ calls' = Append(calls, "establish")) =>
          (~writer /\ ~listening /\ listen_task # "running")]_vars

(***************************************************************************)
(* Tasks that write.  A task started with asyncio.create_task runs once    *)
(* the read loop is back in its read.  It runs up to its first await: the  *)
(* discovery task writes its first query and sleeps, and goes on query by  *)
(* query; the SIP1 task writes its command and ends.  senders holds the    *)
(* tasks that have writes left.  A write goes through whenever             *)
(* _send_command gets as far as writing.                                   *)
(***************************************************************************)
\* a command written in two calls, the await of drain() between them
SplitWrites(command) == <<command, <<"\r">>>>

\* self._writer.write(cmd_bytes): one call for the command and its terminator
Writes(command) == <<CommandBytes(command)>>

RECURSIVE AllWrites(_)
AllWrites(cmds) ==
    IF cmds = <<>> THEN <<>> ELSE Writes(Head(cmds)) \o AllWrites(Tail(cmds))

\* the oldest task started runs up to its first await
StartTask ==
    /\ tasks # <<>>
    /\ tasks' = Tail(tasks)
    /\ LET kind == Head(tasks).kind
           todo == AllWrites(IF kind = "discover_input_names"
                             THEN NameQueries(impl, input_count)
                             ELSE <<SIP1>>)
       IN IF todo = <<>> THEN UNCHANGED <<written, senders>>
          ELSE /\ written' = IF CanSend(impl, connected, writer)
                             THEN Append(written, Head(todo)) ELSE written
               /\ senders' = IF Len(todo) = 1 THEN senders
                             ELSE Append(senders, [kind |-> kind, todo |-> Tail(todo)])
    /\ UNCHANGED <<engineVars, streamVars, fixedVars, zone_states, input_count,
                   input_names, input_discovery_complete, state_cache, events,
                   processed, lock, cpc, attempt, dpc, dfrom, calls, raised,
                   results, convert, setup>>

\* the i-th task with writes left wakes up and makes its next write
SenderStep(i) ==
    /\ i \in 1..Len(senders)
    /\ written' = IF CanSend(impl, connected, writer)
                  THEN Append(written, Head(senders[i].todo)) ELSE written
    /\ senders' = IF Len(senders[i].todo) = 1
                  THEN [k \in 1..(Len(senders) - 1) |->
                           IF k < i THEN senders[k] ELSE senders[k + 1]]
                  ELSE [senders EXCEPT ![i].todo = Tail(@)]
    /\ UNCHANGED <<engineVars, streamVars, fixedVars, storeVars, lock, cpc, attempt,
                   dpc, dfrom, calls, raised, results, convert, setup>>

\* the read loop, each read taking all there is, the tasks it starts, and a
\* caller that turns zone 1 on
NextTasks ==
    \/ \E f \in repertoire : DeviceSend(f)
    \/ \E n \in {Len(wire)} : Read(n)
    \/ PeerClose
    \/ ReadEmpty
    \/ StartTask
    \/ \E i \in 1..Len(senders) : SenderStep(i)
    \/ CommandCall("power_on", 1, 0, FALSE)

\* the receiver reports the input count
SpecTasks ==
    /\ InitListening({DefaultConfig})
    /\ repertoire = Terminated({ <<"I", "C", "N", "2">> }, impl)
    /\ [][NextTasks]_vars

\* the bytes written to the socket, in order
RECURSIVE Stream(_)
Stream(w) == IF w = <<>> THEN <<>> ELSE Head(w) \o Stream(Tail(w))

\* C33: the bytes written to the socket are a sequence of whole commands, each
\* followed at once by its terminator: cut at the terminators, the stream gives
\* only commands that a task or a caller issued, and it ends with a terminator.
C33_WritesNotInterleaved ==
    \E s \in {Stream(written)} :
        LET ends == {i \in 1..Len(s) : s[i] = "\r"}
            Before(t) == IF \E u \in ends : u < t
                         THEN CHOOSE u \in ends : u < t /\ \A v \in ends : v < t => v <= u
                         ELSE 0
            issued == {ECH0, SIP1, ICNQuery, ZonePowerQuery(1),
                       ZoneCommand(1, POW \o <<"1">>),
                       NameQuery(impl, 1), NameQuery(impl, 2)}
        IN /\ s # <<>> => Len(s) \in ends
           /\ \A t \in ends : SubSeq(s, Before(t) + 1, t - 1) \in issued

\* C33's case: a discovery task has written its first query and has one left,
\* and the caller's command was written before the task went on
C33_Witness ==
    /\ senders # <<>>
    /\ \E k \in 2..Len(written) :
          /\ written[k] = CommandBytes(ZoneCommand(1, POW \o <<"1">>))
          /\ written[k - 1] = CommandBytes(NameQuery(impl, 1))

\* C35: at most one input-discovery task is in the middle of its queries: a
\* second input count arriving while a discovery task still has queries to send
\* starts no second one beside it.
C35_OneDiscoveryInFlight ==
    \A i, j \in 1..Len(senders) :
        (senders[i].kind = "discover_input_names" /\ senders[j].kind = "discover_input_names")
            => i = j

(***************************************************************************)
(* Standby IP control.  The receiver reports SIP0 or SIP1; the task that   *)
(* sends SIP1 again is started by the read loop and runs when it can.      *)
(***************************************************************************)
NextSip ==
    \/ NextListening
    \/ StartTask

SpecSip ==
    /\ InitListening({DefaultConfig})
    /\ repertoire = Terminated({ SIP \o <<"0">>, SIP1 }, impl)
    /\ [][NextSip]_vars
    /\ WF_vars(StartTask)

\* C36: each report of SIP0 handled while the engine can send is followed, in
\* time, by one more SIP1 written to the socket (the k-th report by the k-th
\* SIP1 after the handshake's own), and a report of SIP1 starts no task.
C36_StandbyControlReenabled ==
    LET Reports(v) == Cardinality({i \in 1..Len(processed) : processed[i].line = SIP \o v})
        Sip1Written == Cardinality({i \in 1..Len(written) : written[i] = CommandBytes(SIP1)})
        Sip1AtStart == Cardinality({i \in 1..Len(HandshakeCommands(impl, config)) :
                                       HandshakeCommands(impl, config)[i] = SIP1})
    IN /\ [](\A i \in 1..Len(processed) :
                processed[i].line = SIP1 => processed[i].started = 0)
       /\ \A k \in 1..MaxSent :
             (Reports(<<"0">>) >= k /\ CanSend(impl, connected, writer))
                 ~> (Sip1Written >= Sip1AtStart + k \/ ~CanSend(impl, connected, writer))

(***************************************************************************)
(* Inputs by number and by name.  The receiver reports a zone's input and  *)
(* the names of inputs, in any order; a caller looks an input up by name.  *)
(***************************************************************************)
\* the default map asked before the names the receiver gave
default_map_first(names, log, name) ==
    IF \E k \in 1..Len(DefaultInputList) : DefaultInputList[k] = name
    THEN [found |-> TRUE,
          value |-> CHOOSE k \in 1..Len(DefaultInputList) : DefaultInputList[k] = name]
    ELSE IF \E n \in DOMAIN names : names[n] = name
    THEN [found |-> TRUE, value |-> CHOOSE n \in DOMAIN names : names[n] = name]
    ELSE [found |-> FALSE, value |-> 0]

\* the first input of that name in the order in which the numbers were first
\* stored (log: the lines handled so far), else the default map; None is
\* found = FALSE
get_input_number_by_name(names, log, name) ==
    LET matches == {n \in DOMAIN names : names[n] = name}
        Stored(n) == CHOOSE i \in 1..Len(log) :
                        /\ n \in DOMAIN log[i].post.input_names
                        /\ \A j \in 1..(i - 1) : n \notin DOMAIN log[j].post.input_names
    IN IF matches # {}
       THEN [found |-> TRUE,
             value |-> CHOOSE n \in matches : \A m \in matches : Stored(n) <= Stored(m)]
       ELSE IF \E k \in 1..Len(DefaultInputList) : DefaultInputList[k] = name
       THEN [found |-> TRUE,
             value |-> CHOOSE k \in 1..Len(DefaultInputList) : DefaultInputList[k] = name]
       ELSE [found |-> FALSE, value |-> 0]

\* a caller asks for the number of a name
LookupInput(name) ==
    /\ Len(results) < MaxCommands
    /\ results' = Append(results,
           [method |-> "get_input_number_by_name", arg |-> name,
            names |-> input_names,
            ret |-> get_input_number_by_name(input_names, processed, name)])
    /\ UNCHANGED <<engineVars, streamVars, fixedVars, storeVars, callVars,
                   convert, senders, setup>>

\* zone 1 is on input 1; input 1 is USB; input 2 is USB
InputLines ==
    { <<"Z", "1", "I", "N", "P", "1">>,
      <<"I", "S", "N", "0", "1", "U", "S", "B">>,
      <<"I", "S", "N", "0", "2", "U", "S", "B">> }

\* a name the receiver gives, to other numbers than the default map does; a
\* name of the default map only; a name nobody knows
LookupNames == { <<"U", "S", "B">>, <<"A", "R", "C">>, <<"B">> }

NextInputs ==
    \/ \E f \in repertoire : DeviceSend(f)
    \/ \E n \in {Len(wire)} : Read(n)
    \/ \E name \in LookupNames : LookupInput(name)

SpecInputs ==
    /\ InitListening({DefaultConfig})
    /\ repertoire = Terminated(InputLines, impl)
    /\ [][NextInputs]_vars

\* C34: for every zone whose stored input number has a stored name, the zone's
\* stored input_name is that name, whichever of the two arrived first.
C34_InputNameFollowsInput ==
    \A z \in DOMAIN zone_states :
        ("input" \in DOMAIN zone_states[z] /\ zone_states[z]["input"] \in DOMAIN input_names)
            => /\ "input_name" \in DOMAIN zone_states[z]
               /\ zone_states[z]["input_name"] = input_names[zone_states[z]["input"]]

\* C37: a lookup of a name that exactly one discovered input carries returns
\* that input's number, and a lookup of a name that no discovered input carries
\* and the default map does not hold returns no number.
C37_LookupByName ==
    \A i \in 1..Len(results) :
        results[i].method = "get_input_number_by_name" =>
            LET r == results[i]
                carriers == {n \in DOMAIN r.names : r.names[n] = r.arg}
            IN /\ \A n \in carriers : carriers = {n} => r.ret = [found |-> TRUE, value |-> n]
               /\ (carriers = {} /\ \A k \in 1..Len(DefaultInputList) :
                                       DefaultInputList[k] # r.arg)
                      => ~r.ret.found

\* C37's case: input 2 alone is called USB, which the default map has as 13,
\* and the lookup gave 2
C37_Witness ==
    \E i \in 1..Len(results) :
        /\ results[i].method = "get_input_number_by_name"
        /\ results[i].arg = <<"U", "S", "B">>
        /\ DOMAIN results[i].names = {2}
        /\ results[i].ret = [found |-> TRUE, value |-> 2]

(***************************************************************************)
(* Setup.  A setup step builds a temporary engine for the host the user    *)
(* entered, tests the connection with it and returns.  The single-device   *)
(* and multi-device steps of setup.py use AnthemClient and keep the stored *)
(* devices themselves; query_device of setup_flow.py uses AnthemDevice, on *)
(* either side of its merge conflict, and hands a configuration back.      *)
(* setup.tested: the temporary engine exists; setup.open: its socket is    *)
(* open; setup.closed: its disconnect() has run; setup.stored: the ids of  *)
(* the devices stored; setup.had: those stored when the step began.        *)
(***************************************************************************)
\* the step is entered with the host the user gave: without a host it returns
\* at once; the single-device step removes a stored device of the same id
\* before it tests
SetupBegin(flow, host) ==
    /\ setup.pc \in {"idle", "done"}
    /\ flow \in (CASE impl = "client" -> {"single", "multiple"}
                   [] impl = "head" -> {"head"}
                   [] impl = "main" -> {"main"})
    /\ setup' = IF host = ""
                THEN [NoSetup EXCEPT !.pc = "done", !.flow = flow,
                                     !.stored = setup.stored, !.had = setup.stored,
                                     !.outcome = CASE flow = "head" -> "ValueError"
                                                   [] flow = "main" -> "form"
                                                   [] OTHER -> "SetupError"]
                ELSE [NoSetup EXCEPT !.pc = "connect", !.flow = flow, !.host = host,
                                     !.tested = TRUE, !.had = setup.stored,
                                     !.stored = IF flow = "single"
                                                THEN setup.stored \ {host}
                                                ELSE setup.stored]
    /\ UNCHANGED <<engineVars, streamVars, fixedVars, storeVars, callVars,
                   results, convert, senders>>

\* connect() of the temporary engine returns True or False, raises, or, under
\* asyncio.wait_for on the HEAD side, is cancelled at the timeout; where it
\* raises or is cancelled the socket may have been opened already
SetupConnect(result, opened) ==
    /\ setup.pc = "connect"
    /\ result \in {"connected", "refused", "raised"}
                  \cup (IF setup.flow = "head" THEN {"timeout"} ELSE {})
    /\ result = "connected" => opened
    /\ result = "refused" => ~opened
    /\ setup' = [setup EXCEPT !.open = opened,
                              !.pc = IF result = "connected" THEN "test" ELSE "leave",
                              !.exit = result]
    /\ UNCHANGED <<engineVars, streamVars, fixedVars, storeVars, callVars,
                   results, convert, senders>>

\* the queries and the wait for responses go through, or something raises
SetupTest(raises) ==
    /\ setup.pc = "test"
    /\ setup' = [setup EXCEPT !.pc = "leave",
                              !.exit = IF raises THEN "raised" ELSE "connected"]
    /\ UNCHANGED <<engineVars, streamVars, fixedVars, storeVars, callVars,
                   results, convert, senders>>

\* the way out of the step: the finally and except clauses, the store, the result
SetupLeave ==
    /\ setup.pc = "leave"
    /\ LET ok == setup.exit = "connected"
           \* finally: await test_client.close() / await test_device.disconnect();
           \* on the HEAD side disconnect() stands on two paths only
           disconnects == \/ setup.flow \in {"single", "multiple", "main"}
                          \/ setup.flow = "head" /\ setup.exit \in {"connected", "refused"}
       IN setup' = [setup EXCEPT
              !.pc = "done",
              !.open = IF disconnects THEN FALSE ELSE @,
              !.closed = disconnects,
              !.stored = IF ok /\ setup.flow \in {"single", "multiple"}
                         THEN @ \cup {setup.host} ELSE @,
              !.outcome = CASE setup.flow \in {"single", "multiple"} ->
                                   IF ok THEN "SetupComplete" ELSE "SetupError"
                            [] setup.flow = "head" ->
                                   IF ok THEN "config" ELSE "ValueError"
                            [] setup.flow = "main" ->
                                   IF ok THEN "config" ELSE "SetupError"]
    /\ UNCHANGED <<engineVars, streamVars, fixedVars, storeVars, callVars,
                   results, convert, senders>>

NextSetup ==
    \/ \E flow \in {"single", "multiple", "head", "main"}, host \in {"", "a", "b"} :
          SetupBegin(flow, host)
    \/ \E result \in {"connected", "refused", "raised", "timeout"}, opened \in BOOLEAN :
          SetupConnect(result, opened)
    \/ \E raises \in BOOLEAN : SetupTest(raises)
    \/ SetupLeave

SpecSetup == InitConstructed /\ [][NextSetup]_vars

\* C38: whenever a setup step that built a temporary engine has returned, that
\* engine's disconnect() has run and its socket is closed.
C38_TestEngineDisconnected ==
    (setup.pc = "done" /\ setup.tested) => (setup.closed /\ ~setup.open)

\* C39: whenever the single-device step has returned SetupError, the devices
\* stored are those that were stored when it began.
C39_FailedSetupKeepsDevices ==
    (setup.pc = "done" /\ setup.flow = "single" /\ setup.outcome = "SetupError")
        => setup.stored = setup.had

====
